---- MODULE Spec2Model ----
(***************************************************************************)
(* Model of src/caseGenerator/enumerateCases.js: the fan-out combinator    *)
(* appendArgCases and the fold enumerateCases, run step by step over an    *)
(* argument-configuration list with a pluggable appendMethod.              *)
(***************************************************************************)
EXTENDS Integers, Sequences, FiniteSets, TLC

\* Longest argument-configuration list the inputs are drawn from.
MaxArgs == 3
\* Longest validCases / invalidCases list of a generated configuration.
MaxCases == 2

VARIABLES
  argsConfig,             \* ArgConfig[]: the first parameter of the callback
  invalidArgConfigIndex,  \* <<>> when the parameter is not passed, <<n>> for the number n
  appendMethod,           \* name of the appendMethod the enumerator was built with
  pc,                     \* "entry", "reduce" or "done"
  i,                      \* index of the reduce callback's next invocation (0-based)
  processedCases,         \* accumulator of argsConfig.reduce
  result,                 \* value returned by the callback
  calls                   \* number of appendMethod invocations made so far

vars == <<argsConfig, invalidArgConfigIndex, appendMethod, pc, i, processedCases, result, calls>>

\* The value JavaScript yields for a missing array element.
Undefined == "undefined"

----------------------------------------------------------------------------
\* appendMethod implementations (supplied by the caller of the module).

\* Positional strategy: extend([], v) = [[v]]; extend(cases, v) = cases.map(c => c.concat(v)).
ExtendArrayCase(cases, nextArgCase) ==
  IF cases = <<>>
    THEN << <<nextArgCase>> >>
    ELSE [k \in 1..Len(cases) |-> Append(cases[k], nextArgCase)]

\* Optional-branching strategy: the cases unextended, followed by the cases extended.
\* It receives (cases, value) only, so it branches on every slot it is invoked for.
ExtendOptionalCase(cases, nextArgCase) ==
  IF cases = <<>>
    THEN << <<nextArgCase>> >>
    ELSE cases \o [k \in 1..Len(cases) |-> Append(cases[k], nextArgCase)]

AppendMethods == {"extendArrayCase", "extendOptionalCase"}

\* appendMethod(cases, nextArgCase): the call the core makes, two arguments only.
AppendMethod(m, cases, nextArgCase) ==
  IF m = "extendArrayCase"
    THEN ExtendArrayCase(cases, nextArgCase)
    ELSE ExtendOptionalCase(cases, nextArgCase)

----------------------------------------------------------------------------
\* appendArgCases

RECURSIVE ReduceNextArgCases(_, _, _, _, _)
\* nextArgCases.reduce(..., []) from element k on, with accumulator appendedCases.
ReduceNextArgCases(m, cases, nextArgCases, k, appendedCases) ==
  IF k > Len(nextArgCases)
    THEN appendedCases
    ELSE ReduceNextArgCases(m, cases, nextArgCases, k + 1,
                            appendedCases \o AppendMethod(m, cases, nextArgCases[k]))

RECURSIVE PrependNextArgCases(_, _, _, _, _)
PrependNextArgCases(m, cases, nextArgCases, k, appendedCases) ==
  IF k > Len(nextArgCases)
    THEN appendedCases
    ELSE PrependNextArgCases(m, cases, nextArgCases, k + 1,
                             AppendMethod(m, cases, nextArgCases[k]) \o appendedCases)

\* Variant: newCases.concat(appendedCases), the candidates' results in reverse order.
AppendArgCasesPrepending(m, cases, nextArgCases) ==
  PrependNextArgCases(m, cases, nextArgCases, 1, <<>>)

\* Variant: nextArgCases.reduce(..., cases) handed back untouched when there is no candidate.
AppendArgCasesKeepingCases(m, cases, nextArgCases) ==
  IF nextArgCases = <<>>
    THEN cases
    ELSE ReduceNextArgCases(m, cases, nextArgCases, 1, <<>>)

AppendArgCases(m, cases, nextArgCases) ==
  ReduceNextArgCases(m, cases, nextArgCases, 1, <<>>)

----------------------------------------------------------------------------
\* enumerateCases: the values computed before the reduce

\* typeof invalidArgConfigIndex === 'number'
IsNumber(index) == Len(index) = 1

\* invalidArgConf is defined: the index is a number that names an element of argsConfig.
HasInvalidArgConf(config, index) ==
  IsNumber(index) /\ index[1] >= 0 /\ index[1] < Len(config)

\* const { invalidCases } = invalidArgConf || {};  <<>> stands for undefined as well:
\* the value is used only when it is a non-empty list.
InvalidCasesOf(config, index) ==
  IF HasInvalidArgConf(config, index) /\ config[index[1] + 1].hasInvalidCases
    THEN config[index[1] + 1].invalidCases
    ELSE <<>>

\* Variant: invalidArgConf && !invalidCases, the length test left out.
ReturnsEmptyIgnoringLength(config, index) ==
  /\ HasInvalidArgConf(config, index)
  /\ ~config[index[1] + 1].hasInvalidCases

\* invalidArgConf && (!invalidCases || !invalidCases.length)
ReturnsEmpty(config, index) ==
  /\ HasInvalidArgConf(config, index)
  /\ \/ ~config[index[1] + 1].hasInvalidCases
     \/ Len(config[index[1] + 1].invalidCases) = 0

\* i === invalidArgConfigIndex
IsInvalidSlot(slot, index) == IsNumber(index) /\ slot = index[1]

\* Variant: typeof invalidArgConfigIndex !== 'number', the sign test left out.
ExpandsValidCasesIgnoringSign(index) == ~IsNumber(index)

\* typeof invalidArgConfigIndex !== 'number' || invalidArgConfigIndex < 0
ExpandsValidCases(index) == IF IsNumber(index) THEN index[1] < 0 ELSE TRUE

\* Variant: validCases[validCases.length - 1].
LastValidCase(conf) ==
  IF Len(conf.validCases) = 0 THEN Undefined ELSE conf.validCases[Len(conf.validCases)]

\* validCases[0]
FirstValidCase(conf) ==
  IF Len(conf.validCases) = 0 THEN Undefined ELSE conf.validCases[1]

\* Variant: the callback reads conf.optional and keeps the unextended cases as well.
ReduceCallbackReadingOptional(m, config, index, cases, slot) ==
  LET extended ==
        IF IsInvalidSlot(slot, index)
          THEN AppendArgCases(m, cases, InvalidCasesOf(config, index))
          ELSE IF ExpandsValidCases(index)
            THEN AppendArgCases(m, cases, config[slot + 1].validCases)
            ELSE AppendMethod(m, cases, FirstValidCase(config[slot + 1]))
  IN IF config[slot + 1].optional /\ ~IsInvalidSlot(slot, index)
       THEN cases \o extended
       ELSE extended

\* The reduce callback (processedCases, conf, i) => ... : the next accumulator.
ReduceCallback(m, config, index, cases, slot) ==
  IF IsInvalidSlot(slot, index)
    THEN AppendArgCases(m, cases, InvalidCasesOf(config, index))
    ELSE IF ExpandsValidCases(index)
      THEN AppendArgCases(m, cases, config[slot + 1].validCases)
      ELSE AppendMethod(m, cases, FirstValidCase(config[slot + 1]))

\* Number of appendMethod invocations one run of the reduce callback makes.
CallbackCalls(config, index, slot) ==
  IF IsInvalidSlot(slot, index)
    THEN Len(InvalidCasesOf(config, index))
    ELSE IF ExpandsValidCases(index)
      THEN Len(config[slot + 1].validCases)
      ELSE 1

RECURSIVE ReduceArgsConfig(_, _, _, _, _)
\* argsConfig.reduce(callback, []) from element `slot` on.
ReduceArgsConfig(m, config, index, cases, slot) ==
  IF slot >= Len(config)
    THEN cases
    ELSE ReduceArgsConfig(m, config, index,
                          ReduceCallback(m, config, index, cases, slot), slot + 1)

\* enumerateCases(appendMethod)(argsConfig, invalidArgConfigIndex) as a function.
EnumerateCases(m, config, index) ==
  IF ReturnsEmpty(config, index)
    THEN <<>>
    ELSE ReduceArgsConfig(m, config, index, <<>>, 0)

----------------------------------------------------------------------------
\* Inputs

ArgName(j) == "arg" \o ToString(j)
\* Sample values, all distinct: slot j's k-th valid value and k-th invalid value.
ValidSamples(j, n) == [k \in 1..n |-> "v" \o ToString(j) \o ToString(k)]
InvalidSamples(j, n) == [k \in 1..n |-> "x" \o ToString(j) \o ToString(k)]

\* A configuration list of n arguments: argument j has nvs[j] valid samples, the last
\* nOptional arguments are optional, and argument `target` (1-based, 0 for none) has
\* ni invalid samples (-1: no invalidCases property); every other argument has one.
MakeConfig(n, nvs, nOptional, target, ni) ==
  [j \in 1..n |->
    [name |-> ArgName(j),
     validCases |-> ValidSamples(j, nvs[j]),
     hasInvalidCases |-> IF j = target THEN ni >= 0 ELSE TRUE,
     invalidCases |-> IF j = target
                        THEN (IF ni >= 0 THEN InvalidSamples(j, ni) ELSE <<>>)
                        ELSE InvalidSamples(j, 1),
     optional |-> (j > n - nOptional)]]

\* Not passed, negative, in range, and past the end.
IndexInputs(n) == {<<>>} \cup {<<k>> : k \in -2..(n + 1)}

\* The invalidCases lengths tried for the argument the index names.
TargetLengths(n, index) ==
  IF Len(index) = 1 /\ index[1] >= 0 /\ index[1] < n THEN -1..MaxCases ELSE {1}

Arg(nm, valid, invalid, opt) ==
  [name |-> nm, validCases |-> valid, hasInvalidCases |-> TRUE,
   invalidCases |-> invalid, optional |-> opt]

\* The four configurations of the documentation examples of enumerateCases.
DocAllValid ==
  <<Arg("a", <<"true">>, <<"false">>, FALSE), Arg("b", <<"1">>, <<"2">>, FALSE)>>
DocAllValidOptional ==
  <<Arg("a", <<"true">>, <<"false">>, FALSE), Arg("b", <<"1">>, <<"2">>, TRUE)>>
DocFaulted ==
  <<Arg("a", <<"true">>, <<"false", "0">>, FALSE), Arg("b", <<"1", "2">>, <<"3">>, FALSE)>>
DocFaultedOptional ==
  <<Arg("a", <<"true">>, <<"false", "0">>, FALSE), Arg("b", <<"1", "2">>, <<"3">>, TRUE)>>

DocExamples == {DocAllValid, DocAllValidOptional, DocFaulted, DocFaultedOptional}

----------------------------------------------------------------------------
\* The callback returned by enumerateCases(appendMethod), one reduce step per action.

\* A generated call: any argument count, any number of valid samples per argument.
GeneratedCall ==
  \E n \in 0..MaxArgs : \E index \in IndexInputs(n) :
    \E nvs \in [1..n -> 0..MaxCases], nOptional \in 0..n, ni \in TargetLengths(n, index) :
      /\ argsConfig = MakeConfig(n, nvs, nOptional,
                                 IF Len(index) = 1 THEN index[1] + 1 ELSE 0, ni)
      /\ invalidArgConfigIndex = index

\* A call on one of the documented configurations.
DocCall ==
  \E config \in DocExamples : \E index \in IndexInputs(Len(config)) :
    /\ argsConfig = config
    /\ invalidArgConfigIndex = index

Init ==
  /\ \/ GeneratedCall
     \/ DocCall
  /\ appendMethod \in AppendMethods
  /\ pc = "entry"
  /\ i = 0
  /\ processedCases = <<>>
  /\ result = <<>>
  /\ calls = 0

\* if (invalidArgConf && (!invalidCases || !invalidCases.length)) return [];
ReturnEmpty ==
  /\ pc = "entry"
  /\ ReturnsEmpty(argsConfig, invalidArgConfigIndex)
  /\ pc' = "done"
  /\ result' = <<>>
  /\ UNCHANGED <<argsConfig, invalidArgConfigIndex, appendMethod, i, processedCases, calls>>

\* return argsConfig.reduce(..., []);
StartReduce ==
  /\ pc = "entry"
  /\ ~ReturnsEmpty(argsConfig, invalidArgConfigIndex)
  /\ pc' = "reduce"
  /\ i' = 0
  /\ processedCases' = <<>>
  /\ UNCHANGED <<argsConfig, invalidArgConfigIndex, appendMethod, result, calls>>

\* One invocation of the reduce callback, on element i.
ReduceStep ==
  /\ pc = "reduce"
  /\ i < Len(argsConfig)
  /\ processedCases' =
       ReduceCallback(appendMethod, argsConfig, invalidArgConfigIndex, processedCases, i)
  /\ calls' = calls + CallbackCalls(argsConfig, invalidArgConfigIndex, i)
  /\ i' = i + 1
  /\ UNCHANGED <<argsConfig, invalidArgConfigIndex, appendMethod, pc, result>>

\* The reduce has visited every element: its accumulator is the value returned.
ReduceReturn ==
  /\ pc = "reduce"
  /\ i = Len(argsConfig)
  /\ pc' = "done"
  /\ result' = processedCases
  /\ UNCHANGED <<argsConfig, invalidArgConfigIndex, appendMethod, i, processedCases, calls>>

Next ==
  \/ ReturnEmpty
  \/ StartReduce
  \/ ReduceStep
  \/ ReduceReturn

Spec == Init /\ [][Next]_vars

----------------------------------------------------------------------------
\* Properties

Done == pc = "done"
Positional == appendMethod = "extendArrayCase"
NotPassed == invalidArgConfigIndex = <<>>
NumArgs == Len(argsConfig)
\* The index is a number naming an element of argsConfig.
InRange ==
  IF Len(invalidArgConfigIndex) = 1
    THEN invalidArgConfigIndex[1] >= 0 /\ invalidArgConfigIndex[1] < NumArgs
    ELSE FALSE
Negative ==
  IF Len(invalidArgConfigIndex) = 1 THEN invalidArgConfigIndex[1] < 0 ELSE FALSE
PastTheEnd ==
  IF Len(invalidArgConfigIndex) = 1 THEN invalidArgConfigIndex[1] >= NumArgs ELSE FALSE
AllHaveValidCases == \A j \in 1..NumArgs : Len(argsConfig[j].validCases) >= 1
SomeHasNoValidCases == \E j \in 1..NumArgs : Len(argsConfig[j].validCases) = 0
\* The configuration the index names (1-based position f).
TargetHasInvalidCases(f) ==
  argsConfig[f].hasInvalidCases /\ Len(argsConfig[f].invalidCases) >= 1

RECURSIVE ValidProduct(_, _)
\* Product of the validCases lengths of the first j configurations.
ValidProduct(config, j) ==
  IF j = 0 THEN 1 ELSE Len(config[j].validCases) * ValidProduct(config, j - 1)

\* r is the cross product of the validCases lists, the first argument varying fastest.
IsValidCrossProduct(config, r) ==
  /\ Len(r) = ValidProduct(config, Len(config))
  /\ \A k \in 1..Len(r) :
       /\ Len(r[k]) = Len(config)
       /\ \A j \in 1..Len(config) :
            r[k][j] = config[j].validCases[
                        (((k - 1) \div ValidProduct(config, j - 1))
                           % Len(config[j].validCases)) + 1]

RECURSIVE Flatten(_)
Flatten(lists) == IF lists = <<>> THEN <<>> ELSE Head(lists) \o Flatten(Tail(lists))

RECURSIVE SumOfLengths(_)
SumOfLengths(lists) ==
  IF lists = <<>> THEN 0 ELSE Len(Head(lists)) + SumOfLengths(Tail(lists))

\* The reduce callback is about to hand element i to multiAppend.
Expanding ==
  /\ pc = "reduce"
  /\ i < NumArgs
  /\ IF Len(invalidArgConfigIndex) = 1
       THEN invalidArgConfigIndex[1] < 0 \/ invalidArgConfigIndex[1] = i
       ELSE TRUE

\* The candidate list of that multiAppend call.
Candidates ==
  IF Len(invalidArgConfigIndex) = 1 /\ invalidArgConfigIndex = <<i>>
    THEN argsConfig[i + 1].invalidCases
    ELSE argsConfig[i + 1].validCases

C4_VacuousTarget ==
  (Done /\ InRange) =>
    LET f == invalidArgConfigIndex[1] + 1 IN
      ~TargetHasInvalidCases(f) =>
        /\ result = <<>>
        /\ calls = 0
        /\ i = 0
        /\ processedCases = <<>>

C4_Witness ==
  /\ Done /\ NumArgs = 3
  /\ invalidArgConfigIndex = <<1>>
  /\ argsConfig[2].hasInvalidCases
  /\ argsConfig[2].invalidCases = <<>>
  /\ Len(argsConfig[1].validCases) = 2
  /\ Len(argsConfig[3].validCases) = 2
  /\ result = <<>>
  /\ calls = 0

\* C5 as stated: an index at or past the end of the configuration list makes the call
\* return the empty list.
C5_OutOfRangeReturnsEmpty ==
  (Done /\ PastTheEnd) => result = <<>>

\* C6 as stated: in the all-valid plan (both strategies return [[v]] on an empty list),
\* a configuration with no valid value, at any position, makes the result empty.
C6_EmptySlotShortCircuits ==
  (Done /\ NotPassed /\ SomeHasNoValidCases) => result = <<>>

\* C7 as stated: with the optional-branching strategy the documented configurations give
\* the documented results, branching on the optional argument and only on it.
C7_OptionalBranching ==
  (Done /\ appendMethod = "extendOptionalCase") =>
    /\ (argsConfig = DocAllValidOptional /\ NotPassed) =>
         result = << <<"true">>, <<"true", "1">> >>
    /\ (argsConfig = DocFaultedOptional /\ invalidArgConfigIndex = <<0>>) =>
         result = << <<"false">>, <<"0">>, <<"false", "1">>, <<"0", "1">> >>
    /\ (argsConfig = DocAllValid /\ NotPassed) =>
         result = << <<"true", "1">> >>
    /\ (argsConfig = DocFaulted /\ invalidArgConfigIndex = <<0>>) =>
         result = << <<"false", "1">>, <<"0", "1">> >>

\* C8: a call with a negative index returns what the call without an index returns,
\* with no early return.
C8_NegativeIsNotPassed ==
  (Done /\ Negative) =>
    /\ result = EnumerateCases(appendMethod, argsConfig, <<>>)
    /\ i = NumArgs

C8_Witness ==
  /\ Done /\ Positional /\ NumArgs = 2
  /\ invalidArgConfigIndex = <<-2>>
  /\ Len(argsConfig[1].validCases) = 2
  /\ Len(argsConfig[2].validCases) = 2
  /\ Len(result) = 4

\* The configurations with the name and optional fields blanked.
WithoutNameAndOptional(config) ==
  [j \in 1..Len(config) |-> [config[j] EXCEPT !.name = "", !.optional = FALSE]]

C10_DimensionInvariant ==
  Positional =>
    /\ pc = "reduce" => \A k \in 1..Len(processedCases) : Len(processedCases[k]) = i
    /\ Done => \A k \in 1..Len(result) : Len(result[k]) = NumArgs

====
